---- MODULE Spec2Model ----
(***************************************************************************)
(* Model of pruner.py: File (date-stamp parsing, get_bucket),              *)
(* split_into_buckets, create_time_buckets and list_files_to_prune.        *)
(*                                                                         *)
(* A filename is a sequence of one-character strings.  Python offsets are  *)
(* 0-based; the operators below keep the Python offsets and translate to   *)
(* the 1-based TLA+ sequences only when they index.                        *)
(***************************************************************************)
EXTENDS Integers, Sequences, FiniteSets, TLC

(***************************************************************************)
(* Bounds of the model.                                                    *)
(***************************************************************************)
\* longest entry list passed to list_files_to_prune
MaxFiles == 2
\* largest value of each RetentionPolicy field
MaxRetention == 1
\* oldest date stamp written into a generated filename (days before now)
MaxAge == 3

(***************************************************************************)
(* Characters.                                                             *)
(***************************************************************************)
DigitChars == <<"0", "1", "2", "3", "4", "5", "6", "7", "8", "9">>

IsDigit(c) == \E k \in 1..10 : DigitChars[k] = c

DigitVal(c) == (CHOOSE k \in 1..10 : DigitChars[k] = c) - 1

\* the characters used in filenames, in code point order (Python compares
\* strings by code point): '-' 45, '.' 46, '0'-'9', ':' 58, '_' 95, letters
Alphabet ==
    <<"-", ".", "0", "1", "2", "3", "4", "5", "6", "7", "8", "9", ":", "_",
      "a", "b", "c", "d", "e", "f", "g", "l", "t", "u", "x", "y", "z">>

Ord(c) == CHOOSE k \in 1..Len(Alphabet) : Alphabet[k] = c

Min(S) == CHOOSE x \in S : \A y \in S : x <= y

\* Python str.__lt__
RECURSIVE StrLess(_, _)
StrLess(s, t) ==
    IF t = <<>> THEN FALSE
    ELSE IF s = <<>> THEN TRUE
    ELSE IF Head(s) # Head(t) THEN Ord(Head(s)) < Ord(Head(t))
    ELSE StrLess(Tail(s), Tail(t))

\* Python slice s[a:b] with 0 <= a, 0 <= b (offsets past the end are clipped)
Slice(s, a, b) == SubSeq(s, a + 1, IF b < Len(s) THEN b ELSE Len(s))

\* Python s[a:]
SliceFrom(s, a) == SubSeq(s, a + 1, Len(s))

\* Python 'sub in s'
Contains(s, sub) ==
    \E p \in 0..(Len(s) - Len(sub)) : SubSeq(s, p + 1, p + Len(sub)) = sub

(***************************************************************************)
(* Calendar: datetime - timedelta(days=n) and the f-string of line 227.    *)
(* Dates are counted in days of the proleptic Gregorian calendar.          *)
(***************************************************************************)
DaysFromCivil(y, m, d) ==
    LET yy  == IF m <= 2 THEN y - 1 ELSE y
        era == yy \div 400
        yoe == yy - era * 400
        mp  == IF m > 2 THEN m - 3 ELSE m + 9
        doy == (153 * mp + 2) \div 5 + d - 1
        doe == yoe * 365 + yoe \div 4 - yoe \div 100 + doy
    IN  era * 146097 + doe - 719468

CivilFromDays(z) ==
    LET zz  == z + 719468
        era == zz \div 146097
        doe == zz - era * 146097
        yoe == (doe - doe \div 1460 + doe \div 36524 - doe \div 146096) \div 365
        doy == doe - (365 * yoe + yoe \div 4 - yoe \div 100)
        mp  == (5 * doy + 2) \div 153
        d   == doy - (153 * mp + 2) \div 5 + 1
        m   == IF mp < 10 THEN mp + 3 ELSE mp - 9
        y   == yoe + era * 400 + (IF m <= 2 THEN 1 ELSE 0)
    IN  [year |-> y, month |-> m, day |-> d]

\* the reference instant of the test fixtures (only its date is used)
TD_TIMESTAMP == [year |-> 2023, month |-> 1, day |-> 4]

now == DaysFromCivil(TD_TIMESTAMP.year, TD_TIMESTAMP.month, TD_TIMESTAMP.day)

Digit(n) == DigitChars[n + 1]

\* f'{n:02}'
Fmt02(n) == <<Digit((n \div 10) % 10), Digit(n % 10)>>

\* f'{n}' for a four-digit year
FmtYear(n) ==
    <<Digit(n \div 1000), Digit((n \div 100) % 10), Digit((n \div 10) % 10), Digit(n % 10)>>

\* date_stamp of the scan iteration that examines the day n days before now
DateStampOf(n) ==
    LET d == CivilFromDays(now - n)
    IN  FmtYear(d.year) \o <<"-">> \o Fmt02(d.month) \o <<"-">> \o Fmt02(d.day)

(***************************************************************************)
(* File.r_date_stamp                                                       *)
(***************************************************************************)
IsSep(c) == c \in {"-", "_"}

IsTimeChar(c) == IsDigit(c) \/ c \in {":", "_", "-"}

\* character at Python offset p, "" past the end
At(s, p) == IF p >= 0 /\ p < Len(s) THEN s[p + 1] ELSE ""

\* number of consecutive [0-9:_-] characters from offset p, at most 10
RECURSIVE TimeRun(_, _, _)
TimeRun(s, p, n) ==
    IF n < 10 /\ IsTimeChar(At(s, p)) THEN TimeRun(s, p + 1, n + 1) ELSE n

\* r_date_stamp.match at offset p: [ok, end, stamp]
MatchAt(s, p) ==
    LET yok == /\ \/ At(s, p) = "1" /\ At(s, p + 1) = "9"
                  \/ At(s, p) = "2" /\ At(s, p + 1) = "0"
               /\ IsDigit(At(s, p + 2))
               /\ IsDigit(At(s, p + 3))
        pm  == IF IsSep(At(s, p + 4)) THEN p + 5 ELSE p + 4
        mok == \/ At(s, pm) = "0" /\ IsDigit(At(s, pm + 1)) /\ At(s, pm + 1) # "0"
               \/ At(s, pm) = "1" /\ At(s, pm + 1) \in {"0", "1", "2"}
        pd  == IF IsSep(At(s, pm + 2)) THEN pm + 3 ELSE pm + 2
        dok == \/ At(s, pd) = "0" /\ IsDigit(At(s, pd + 1)) /\ At(s, pd + 1) # "0"
               \/ At(s, pd) \in {"1", "2"} /\ IsDigit(At(s, pd + 1))
               \/ At(s, pd) = "3" /\ At(s, pd + 1) \in {"0", "1"}
        run == TimeRun(s, pd + 2, 0)
    IN  IF yok /\ mok /\ dok /\ run >= 6
        THEN [ok |-> TRUE, end |-> pd + 2 + run,
              stamp |-> SubSeq(s, p + 1, p + 4) \o <<"-">> \o SubSeq(s, pm + 1, pm + 2)
                        \o <<"-">> \o SubSeq(s, pd + 1, pd + 2)]
        ELSE [ok |-> FALSE, end |-> -1, stamp |-> <<>>]

\* r_date_stamp.search: the leftmost match
Search(s) ==
    LET hits == {p \in 0..(Len(s) - 1) : MatchAt(s, p).ok}
    IN  IF hits = {} THEN [ok |-> FALSE, start |-> -1, end |-> -1, stamp |-> <<>>]
        ELSE LET p == Min(hits)
                 m == MatchAt(s, p)
             IN  [ok |-> TRUE, start |-> p, end |-> m.end, stamp |-> m.stamp]

(***************************************************************************)
(* File.__init__                                                           *)
(***************************************************************************)
\* base_filename.split(os.path.extsep)[0]
RECURSIVE Stem(_)
Stem(s) ==
    IF s = <<>> \/ Head(s) = "." THEN <<>> ELSE <<Head(s)>> \o Stem(Tail(s))

\* filename.replace('_', '-')
ReplaceUnderscore(s) == [k \in 1..Len(s) |-> IF s[k] = "_" THEN "-" ELSE s[k]]

\* the generated filenames carry no directory part: basename is the identity on them
File(filename) ==
    LET m == Search(filename)
    IN  [original_filename |-> filename,
         filename          |-> Stem(filename),
         internal_filename |-> ReplaceUnderscore(Stem(filename)),
         ds_start          |-> IF m.ok THEN m.start ELSE -1,
         ds_end            |-> IF m.ok THEN m.end ELSE -1,
         date_stamp        |-> IF m.ok THEN m.stamp ELSE <<>>]

(***************************************************************************)
(* File.get_bucket: the returned key, the attributes it leaves behind and  *)
(* whether it raised IndexError.                                           *)
(***************************************************************************)
default == <<"d", "e", "f", "a", "u", "l", "t">>

get_bucket(f) ==
    LET name == f.internal_filename
        n    == Len(name)
    IN  IF f.ds_start = -1 /\ f.ds_end = -1
        THEN [raised |-> FALSE, key |-> name, file |-> f]
        ELSE IF f.ds_start > n - f.ds_end
        THEN IF f.ds_start > 1 /\ f.ds_start - 1 >= n
             THEN [raised |-> TRUE, key |-> <<>>, file |-> f]
             ELSE LET s == IF f.ds_start > 1 /\ name[f.ds_start] = "-"
                           THEN f.ds_start - 1 ELSE f.ds_start
                  IN  [raised |-> FALSE, key |-> Slice(name, 0, s),
                       file |-> [f EXCEPT !.ds_start = s]]
        ELSE LET e == IF f.ds_end < n /\ name[f.ds_end + 1] = "-"
                      THEN f.ds_end + 1 ELSE f.ds_end
                 rest == SliceFrom(name, e)
             IN  [raised |-> FALSE,
                  key |-> IF rest # <<>> THEN rest ELSE default,
                  file |-> [f EXCEPT !.ds_end = e]]

(***************************************************************************)
(* RetentionPolicy and the filenames the model draws its entry lists from. *)
(***************************************************************************)
\* every field is either 0 (the generation is switched off) or MaxRetention
RetentionPolicy ==
    [daily : {0, MaxRetention}, weekly : {0, MaxRetention},
     monthly : {0, MaxRetention}, yearly : {0, MaxRetention}]

db == <<"d", "b">>

TimeText == <<"-", "1", "7", "-", "2", "8", "-", "2", "5">>

\* the extension the listing is filtered by (the -e option)
extension == <<"g", "z">>

Ext == <<".">> \o extension

\* shapes generated with every age 0..MaxAge, and shapes generated with age 0
AgedShapes == {"prefix", "dashes"}

OtherShapes == {"underscore", "afterext", "suffix", "flip"}

\* a filename of the given shape whose date stamp lies a days before now
FileName(shape, a) ==
    CASE shape = "prefix"     -> db \o <<"-">> \o DateStampOf(a) \o TimeText \o Ext
      [] shape = "underscore" -> db \o <<"_">> \o DateStampOf(a) \o <<"_">> \o Tail(TimeText) \o Ext
      [] shape = "dashes"     -> db \o <<"-", "-">> \o DateStampOf(a) \o TimeText \o Ext
      [] shape = "twodates"   -> db \o <<"-">> \o DateStampOf(a) \o <<"-">> \o DateStampOf(a + 1) \o Ext
      [] shape = "afterext"   -> db \o <<".">> \o DateStampOf(a) \o TimeText \o Ext
      [] shape = "suffix"     -> DateStampOf(a) \o TimeText \o Ext
      [] shape = "flip"       -> <<"a", "b", "c", "-">> \o DateStampOf(a) \o TimeText
                                 \o <<"x", "y", "z">> \o Ext

Undated == db \o Ext

\* a filename whose date stamp is the day after now
Future == FileName("prefix", -1)

FileNames ==
    {FileName(s, a) : s \in AgedShapes, a \in 0..MaxAge}
    \cup {FileName(s, 0) : s \in OtherShapes}
    \cup {FileName("twodates", MaxAge), Undated, Future}

\* sorted(filenames) of create_file_list_from_filenames: the lists of at most
\* MaxFiles distinct filenames in ascending order
SortedLists ==
    UNION {{l \in [1..n -> FileNames] : \A k \in 1..(n - 1) : StrLess(l[k], l[k + 1])}
           : n \in 0..MaxFiles}

\* Python fn.endswith(suffix)
EndsWith(fn, suffix) ==
    Len(fn) >= Len(suffix) /\ SubSeq(fn, Len(fn) - Len(suffix) + 1, Len(fn)) = suffix

\* lines 182-183: the filter by extension and the conversion to File objects
create_file_list_from_filenames(filenames_list) ==
    LET HasExtension(fn) == EndsWith(fn, extension)
        kept == SelectSeq(filenames_list, HasExtension)
    IN  [k \in 1..Len(kept) |-> File(kept[k])]

(***************************************************************************)
(* create_time_buckets: helpers                                            *)
(***************************************************************************)
max_days == 365 * 40

Generations == <<"daily", "weekly", "monthly", "yearly", "obsolete">>

\* the five defaultdict(list) of lines 216-222, each in insertion order
EmptyTimeBuckets == [g \in {Generations[k] : k \in 1..5} |-> <<>>]

\* the if/elif chain as it would be were days_ago compared before its increment
GenerationBeforeIncrement(n, policy) ==
    IF n - 1 <= policy.daily THEN "daily"
    ELSE IF n - 1 <= policy.weekly * 7 + 1 THEN "weekly"
    ELSE IF n - 1 <= policy.monthly * 30 + 3 THEN "monthly"
    ELSE IF n - 1 <= policy.yearly * 365 + 2 THEN "yearly"
    ELSE "obsolete"

\* the if/elif chain of lines 238-252
Generation(n, policy) ==
    IF n <= policy.daily THEN "daily"
    ELSE IF n <= policy.weekly * 7 + 1 THEN "weekly"
    ELSE IF n <= policy.monthly * 30 + 3 THEN "monthly"
    ELSE IF n <= policy.yearly * 365 + 2 THEN "yearly"
    ELSE "obsolete"

\* the dictionary key used with each generation
SubPeriod(gen, n) ==
    CASE gen = "daily"    -> n
      [] gen = "weekly"   -> n \div 7
      [] gen = "monthly"  -> n \div 28
      [] gen = "yearly"   -> n \div 365
      [] gen = "obsolete" -> 0

\* buckets[gen][num].append(f)
AppendToSlot(tb, gen, num, f) ==
    IF \E k \in 1..Len(tb[gen]) : tb[gen][k].num = num
    THEN [tb EXCEPT ![gen] =
            [k \in 1..Len(tb[gen]) |->
                IF tb[gen][k].num = num
                THEN [tb[gen][k] EXCEPT !.files = Append(@, f)]
                ELSE tb[gen][k]]]
    ELSE [tb EXCEPT ![gen] = Append(@, [num |-> num, files |-> <<f>>])]

RECURSIVE AppendAllToSlot(_, _, _, _)
AppendAllToSlot(tb, gen, num, fs) ==
    IF fs = <<>> THEN tb
    ELSE AppendAllToSlot(AppendToSlot(tb, gen, num, Head(fs)), gen, num, Tail(fs))

\* the days n in 0..max_days for which 'date_stamp in f.internal_filename'
\* holds when date_stamp is the stamp of the day n days before now: every
\* offset of the name that holds dddd-dd-dd is read as a date, and the date
\* counts when formatting its day gives back the same ten characters
MatchDays(f) ==
    LET s == f.internal_filename
        Num2(p) == DigitVal(s[p + 1]) * 10 + DigitVal(s[p + 2])
        Shaped(p) == /\ s[p + 5] = "-" /\ s[p + 8] = "-"
                     /\ \A k \in {1, 2, 3, 4, 6, 7, 9, 10} : IsDigit(s[p + k])
        DayOf(p) == now - DaysFromCivil(Num2(p) * 100 + Num2(p + 2), Num2(p + 5), Num2(p + 8))
        IsStampOf(n, p) == n \in 0..max_days /\ DateStampOf(n) = SubSeq(s, p + 1, p + 10)
    IN  UNION {LET n == DayOf(p) IN IF IsStampOf(n, p) THEN {n} ELSE {}
               : p \in {q \in 0..(Len(s) - 10) : Shaped(q)}}

(***************************************************************************)
(* State.  File objects live in file_list; every other collection holds    *)
(* references to them (positions of file_list), as the Python lists do.    *)
(***************************************************************************)
VARIABLES
    file_list,         \* the File objects passed to list_files_to_prune
    retention_policy,  \* the RetentionPolicy passed with them
    pc,                \* "call", "split", "series", "scan", "select", "done", "raised"
    error,             \* the exception that ended the call, "" when none
    call,              \* 1 during the first call of list_files_to_prune, 2 during the second
    first_result,      \* the list returned by the first call
    i,                 \* split_into_buckets: position of the for loop
    buckets,           \* split_into_buckets: the dict, in insertion order
    cur,               \* list_files_to_prune: position of the loop over buckets.items()
    files,             \* create_time_buckets: the working list
    days_ago,          \* create_time_buckets: the day counter
    time_buckets,      \* create_time_buckets: the dict being filled
    file_buckets,      \* every dict create_time_buckets has returned in this call
    reported,          \* the files logged as unsortable in this call
    files_to_delete    \* list_files_to_prune: the result being built

vars == <<file_list, retention_policy, pc, error, call, first_result, i, buckets, cur,
          files, days_ago, time_buckets, file_buckets, reported, files_to_delete>>

Init ==
    /\ \E filenames_list \in SortedLists :
          file_list = create_file_list_from_filenames(filenames_list)
    /\ retention_policy \in RetentionPolicy
    /\ pc = "call"
    /\ error = ""
    /\ call = 1
    /\ first_result = <<>>
    /\ i = 1
    /\ buckets = <<>>
    /\ cur = 1
    /\ files = <<>>
    /\ days_ago = 0
    /\ time_buckets = EmptyTimeBuckets
    /\ file_buckets = <<>>
    /\ reported = <<>>
    /\ files_to_delete = <<>>

(***************************************************************************)
(* list_files_to_prune, lines 190-192: the assertion and the call of       *)
(* split_into_buckets.                                                     *)
(***************************************************************************)
\* list_files_to_prune without its assertion
AssertFileListSkipped(fl) == TRUE

\* assert file_list
AssertFileList(fl) == fl # <<>>

ListFilesToPrune ==
    /\ pc = "call"
    /\ IF AssertFileList(file_list)
       THEN /\ pc' = "split"
            /\ error' = error
       ELSE /\ pc' = "raised"
            /\ error' = "AssertionError"
    /\ i' = 1
    /\ buckets' = <<>>
    /\ UNCHANGED <<file_list, retention_policy, call, first_result, cur, files, days_ago,
                   time_buckets, file_buckets, reported, files_to_delete>>

(***************************************************************************)
(* split_into_buckets, lines 162-168.                                      *)
(***************************************************************************)
HasKey(d, key) == \E k \in 1..Len(d) : d[k].key = key

\* d[key].append(f)
DictAppend(d, key, f) ==
    [k \in 1..Len(d) |-> IF d[k].key = key THEN [d[k] EXCEPT !.files = Append(@, f)] ELSE d[k]]

\* d[key] = [f]
DictSet(d, key, f) ==
    IF HasKey(d, key)
    THEN [k \in 1..Len(d) |-> IF d[k].key = key THEN [d[k] EXCEPT !.files = <<f>>] ELSE d[k]]
    ELSE Append(d, [key |-> key, files |-> <<f>>])

\* one iteration of 'for f in file_list': get_bucket is called in the try
\* block and, after a KeyError, a second time in the except block
SplitIntoBuckets ==
    /\ pc = "split"
    /\ i <= Len(file_list)
    /\ LET r1 == get_bucket(file_list[i])
           r2 == get_bucket(r1.file)
       IN  IF r1.raised
           THEN /\ pc' = "raised"
                /\ error' = "IndexError"
                /\ UNCHANGED <<file_list, buckets, i>>
           ELSE IF HasKey(buckets, r1.key)
           THEN /\ buckets' = DictAppend(buckets, r1.key, i)
                /\ file_list' = [file_list EXCEPT ![i] = r1.file]
                /\ i' = i + 1
                /\ UNCHANGED <<pc, error>>
           ELSE IF r2.raised
           THEN /\ pc' = "raised"
                /\ error' = "IndexError"
                /\ file_list' = [file_list EXCEPT ![i] = r1.file]
                /\ UNCHANGED <<buckets, i>>
           ELSE /\ buckets' = DictSet(buckets, r2.key, i)
                /\ file_list' = [file_list EXCEPT ![i] = r2.file]
                /\ i' = i + 1
                /\ UNCHANGED <<pc, error>>
    /\ UNCHANGED <<retention_policy, call, first_result, cur, files, days_ago,
                   time_buckets, file_buckets, reported, files_to_delete>>

\* 'return buckets' and lines 198-199
SplitReturn ==
    /\ pc = "split"
    /\ i > Len(file_list)
    /\ pc' = "series"
    /\ cur' = 1
    /\ files_to_delete' = <<>>
    /\ UNCHANGED <<file_list, retention_policy, error, call, first_result, i, buckets,
                   files, days_ago, time_buckets, file_buckets, reported>>

(***************************************************************************)
(* create_time_buckets, lines 212-256.                                     *)
(***************************************************************************)
\* the call of line 201 and lines 216-224; the working list is the list of
\* the series (the model keeps it apart from buckets, which no code reads
\* once the series is being classified)
CreateTimeBuckets ==
    /\ pc = "series"
    /\ cur <= Len(buckets)
    /\ files' = buckets[cur].files
    /\ days_ago' = 0
    /\ time_buckets' = EmptyTimeBuckets
    /\ pc' = IF buckets[cur].files = <<>> THEN "select" ELSE "scan"
    /\ UNCHANGED <<file_list, retention_policy, error, call, first_result, i, buckets, cur,
                   file_buckets, reported, files_to_delete>>

\* NextDay were the ceiling tested with 'days_ago > max_days'
NextDayLateCeiling ==
    Min({n \in UNION {MatchDays(file_list[files[k]]) : k \in 1..Len(files)} : n >= days_ago}
        \cup {max_days})

\* The value days_ago has before its increment in the next iteration of the
\* while loop that either matches a file or reaches the ceiling.  The
\* iterations before it only increment days_ago.
NextDay ==
    Min({n \in UNION {MatchDays(file_list[files[k]]) : k \in 1..Len(files)} : n >= days_ago}
        \cup {max_days - 1})

\* the iterations of the while loop up to and including the next one in
\* which some file of the working list carries the date stamp
ScanDay ==
    /\ pc = "scan"
    /\ files # <<>>
    /\ LET day   == NextDay
           n     == day + 1
           gen   == Generation(n, retention_policy)
           Match(f) == day \in MatchDays(file_list[f])
           matched == SelectSeq(files, Match)
           processed_files == IF gen = "obsolete" THEN <<>> ELSE matched
           Remains(f) == \A k \in 1..Len(processed_files) : processed_files[k] # f
           remaining == SelectSeq(files, Remains)
       IN  /\ n < max_days
           /\ days_ago' = n
           /\ time_buckets' = AppendAllToSlot(time_buckets, gen, SubPeriod(gen, n), matched)
           /\ files' = remaining
           /\ pc' = IF remaining = <<>> THEN "select" ELSE "scan"
    /\ UNCHANGED <<file_list, retention_policy, error, call, first_result, i, buckets, cur,
                   file_buckets, reported, files_to_delete>>

\* the iterations of the while loop up to the one that reaches max_days:
\* lines 229-233
ScanCeiling ==
    /\ pc = "scan"
    /\ files # <<>>
    /\ NextDay + 1 >= max_days
    /\ days_ago' = NextDay + 1
    /\ reported' = reported \o files
    /\ pc' = "select"
    /\ UNCHANGED <<file_list, retention_policy, error, call, first_result, i, buckets, cur,
                   files, time_buckets, file_buckets, files_to_delete>>

(***************************************************************************)
(* list_files_to_prune, lines 203-209.                                     *)
(***************************************************************************)
\* filenames[1:] of every slot of one generation, in insertion order
RECURSIVE AllButFirst(_)
AllButFirst(slots) ==
    IF slots = <<>> THEN <<>>
    ELSE Tail(Head(slots).files) \o AllButFirst(Tail(slots))

\* what lines 204-206 add to files_to_delete for one series
ToDelete(tb) ==
    AllButFirst(tb["daily"]) \o AllButFirst(tb["weekly"]) \o AllButFirst(tb["monthly"])
    \o AllButFirst(tb["yearly"]) \o AllButFirst(tb["obsolete"])

KeepFirst ==
    /\ pc = "select"
    /\ files_to_delete' = files_to_delete \o ToDelete(time_buckets)
    /\ file_buckets' = Append(file_buckets, time_buckets)
    /\ cur' = cur + 1
    /\ pc' = "series"
    /\ UNCHANGED <<file_list, retention_policy, error, call, first_result, i, buckets,
                   files, days_ago, time_buckets, reported>>

\* return files_to_delete
Return ==
    /\ pc = "series"
    /\ cur > Len(buckets)
    /\ pc' = "done"
    /\ UNCHANGED <<file_list, retention_policy, error, call, first_result, i, buckets, cur,
                   files, days_ago, time_buckets, file_buckets, reported, files_to_delete>>

\* the caller calls list_files_to_prune a second time with the same File
\* objects and the same policy
CallAgain ==
    /\ pc = "done"
    /\ call = 1
    /\ call' = 2
    /\ first_result' = files_to_delete
    /\ pc' = "call"
    /\ i' = 1
    /\ buckets' = <<>>
    /\ cur' = 1
    /\ files' = <<>>
    /\ days_ago' = 0
    /\ time_buckets' = EmptyTimeBuckets
    /\ file_buckets' = <<>>
    /\ reported' = <<>>
    /\ files_to_delete' = <<>>
    /\ UNCHANGED <<file_list, retention_policy, error>>

Next ==
    \/ ListFilesToPrune
    \/ SplitIntoBuckets
    \/ SplitReturn
    \/ CreateTimeBuckets
    \/ ScanDay
    \/ ScanCeiling
    \/ KeepFirst
    \/ Return
    \/ CallAgain

Spec == Init /\ [][Next]_vars

(***************************************************************************)
(* Properties.                                                             *)
(***************************************************************************)
Elems(s) == {s[k] : k \in 1..Len(s)}

GenerationNames == {"daily", "weekly", "monthly", "yearly", "obsolete"}

\* the slots of one dict returned by create_time_buckets
SlotsOf(tb) ==
    UNION {{[gen |-> g, num |-> tb[g][k].num, files |-> tb[g][k].files] : k \in 1..Len(tb[g])}
           : g \in GenerationNames}

\* the slots of every series classified in this call
AllSlots == UNION {SlotsOf(file_buckets[k]) : k \in 1..Len(file_buckets)}

\* the create_time_buckets call of the current series is running or has just returned
Classifying == pc \in {"scan", "select"}

ZeroPolicy == [daily |-> 0, weekly |-> 0, monthly |-> 0, yearly |-> 0]

\* C1: when list_files_to_prune returns, every slot built by
\* create_time_buckets has exactly one of its distinct entries absent from
\* the returned prune list, and all its other entries in it.
C1_OneSurvivorPerSlot ==
    pc = "done" =>
        \A slot \in AllSlots :
            Cardinality({f \in Elems(slot.files) : f \notin Elems(files_to_delete)}) = 1

\* C2: the mapping returned by split_into_buckets partitions the input: every
\* input entry is in exactly one series list, exactly once, no series list
\* holds anything else, and every series list is in input order.
C2_SplitPartitions ==
    pc = "series" =>
        /\ \A f \in 1..Len(file_list) :
              Cardinality({<<k, j>> \in (1..Len(buckets)) \X (1..Len(file_list)) :
                              j <= Len(buckets[k].files) /\ buckets[k].files[j] = f}) = 1
        /\ \A k \in 1..Len(buckets) :
              /\ Elems(buckets[k].files) \subseteq 1..Len(file_list)
              /\ \A j \in 1..(Len(buckets[k].files) - 1) :
                    buckets[k].files[j] < buckets[k].files[j + 1]

\* C3: for a sorted entry list, the entry kept in each slot (the one at
\* position 0 of the slot) is the entry of the slot that comes first in the
\* input list.
C3_FirstInInputKept ==
    pc = "done" =>
        \A slot \in AllSlots : \A f \in Elems(slot.files) : slot.files[1] <= f

\* the generation C4 states for an entry dated d days before now
C4_StatedGeneration(d) ==
    IF d <= retention_policy.daily THEN "daily"
    ELSE IF d <= retention_policy.weekly * 7 + 1 THEN "weekly"
    ELSE IF d <= retention_policy.monthly * 30 + 3 THEN "monthly"
    ELSE IF d <= retention_policy.yearly * 365 + 2 THEN "yearly"
    ELSE "obsolete"

\* the entries of generation g in the dict being filled
InGeneration(g) == UNION {Elems(time_buckets[g][k].files) : k \in 1..Len(time_buckets[g])}

\* C4 as stated: an entry whose normalized stem contains the date d days
\* before now is assigned to daily if d <= daily, else weekly if
\* d <= weekly*7+1, else monthly if d <= monthly*30+3, else yearly if
\* d <= yearly*365+2, else obsolete.
C4_ThresholdsOnAge ==
    Classifying =>
        \A f \in Elems(buckets[cur].files) : \A d \in MatchDays(file_list[f]) :
            d < days_ago /\ d + 1 < max_days => f \in InGeneration(C4_StatedGeneration(d))

\* C4 amended: the thresholds are compared with days_ago = d + 1, the
\* counter having been incremented before the comparison; the entry must
\* still be in the working list on that day, which it is unless an earlier
\* date of its stem put it in a generation other than obsolete.
C4_ThresholdsOnDaysAgo ==
    Classifying =>
        \A f \in Elems(buckets[cur].files) : \A d \in MatchDays(file_list[f]) :
            /\ d < days_ago
            /\ d + 1 < max_days
            /\ \A e \in MatchDays(file_list[f]) :
                  e < d => C4_StatedGeneration(e + 1) = "obsolete"
            => /\ f \in InGeneration(C4_StatedGeneration(d + 1))
               /\ \A g \in GenerationNames \ {C4_StatedGeneration(d + 1), "obsolete"} :
                     f \notin InGeneration(g)

\* C4 witness: an entry dated exactly policy.daily days before now has been
\* classified, and it is in weekly, not in daily.
C4_Witness ==
    /\ Classifying
    /\ \E f \in InGeneration("weekly") :
          /\ retention_policy.daily \in MatchDays(file_list[f])
          /\ retention_policy.daily >= 1

\* C5: under the all-zero policy every dated entry matched by the scan is in
\* obsolete[0] and the daily, weekly, monthly and yearly generations are empty.
C5_ZeroPolicyAllObsolete ==
    Classifying /\ retention_policy = ZeroPolicy =>
        /\ \A g \in GenerationNames \ {"obsolete"} : time_buckets[g] = <<>>
        /\ \A f \in Elems(buckets[cur].files) :
              (\E d \in MatchDays(file_list[f]) : d < days_ago /\ d + 1 < max_days)
              => \E k \in 1..Len(time_buckets["obsolete"]) :
                    /\ time_buckets["obsolete"][k].num = 0
                    /\ f \in Elems(time_buckets["obsolete"][k].files)

\* C6: the second call of list_files_to_prune with the same File objects and
\* policy returns the prune list the first call returned.
C6_Idempotent ==
    pc = "done" /\ call = 2 => files_to_delete = first_result

\* C7: the entries reported at the ceiling are exactly the entries that
\* matched no scanned date: a reported entry is in no slot and is neither a
\* survivor nor in the prune list, and no classified entry is reported.
C7_ReportedAreUnclassified ==
    pc = "done" =>
        /\ \A f \in Elems(reported) :
              /\ \A slot \in AllSlots : f \notin Elems(slot.files)
              /\ f \notin Elems(files_to_delete)
        /\ \A k \in 1..Len(buckets) : \A f \in Elems(buckets[k].files) :
              (\A slot \in AllSlots : f \notin Elems(slot.files)) => f \in Elems(reported)

\* C8: list_files_to_prune raises AssertionError exactly for the empty entry
\* list, for every policy, and returns only for a non-empty one.
C8_EmptyInputRaises ==
    /\ file_list = <<>> /\ pc # "call" => pc = "raised" /\ error = "AssertionError"
    /\ error = "AssertionError" => file_list = <<>>
    /\ pc = "done" => file_list # <<>>

\* C8 witness: the call with the empty list has raised AssertionError.
C8_Witness ==
    file_list = <<>> /\ pc = "raised" /\ error = "AssertionError"

\* C9: for a non-empty entry list the selection raises nothing: the
\* AssertionError of the empty list is the only exception.
C9_OnlyAssertionError ==
    error \in {"", "AssertionError"}

\* C10: at the end of every scan iteration no entry is both in a slot of the
\* dict being filled and in the working list.
C10_ClassifiedAreRemoved ==
    Classifying =>
        \A g \in GenerationNames : InGeneration(g) \cap Elems(files) = {}

\* C11: an entry is immutable after construction: after any sequence of
\* get_bucket and split_into_buckets calls every File still has the
\* attributes its constructor gave it (the date span included), and its date
\* span is absent exactly when its date stamp is empty.
C11_FilesImmutable ==
    \A k \in 1..Len(file_list) :
        /\ file_list[k] = File(file_list[k].original_filename)
        /\ (file_list[k].ds_start = -1 /\ file_list[k].ds_end = -1)
           <=> file_list[k].date_stamp = <<>>

\* C12: the day scan of create_time_buckets terminates within 365*40
\* iterations.  Line 228 runs once in every iteration, so days_ago counts the
\* iterations started: the count never exceeds max_days, the loop is left as
\* soon as the working list is empty or the count reaches max_days, and every
\* step of the scan increases the count.
C12_ScanTerminates ==
    /\ [](Classifying =>
            /\ days_ago <= max_days
            /\ pc = "scan" => files # <<>> /\ days_ago < max_days
            /\ pc = "select" => files = <<>> \/ days_ago = max_days)
    /\ [][pc = "scan" => days_ago' > days_ago /\ pc' \in {"scan", "select"}]_vars

\* C12 witness: a scan has stopped at the ceiling with entries left in the
\* working list (undated, dated in the future or obsolete).
C12_Witness ==
    pc = "select" /\ days_ago = max_days /\ files # <<>>

====
